---- MODULE Spec2Model ----
(***************************************************************************)
(* rmds: a depth-first traversal that unlinks the files whose name matches *)
(* a target predicate (src/rmds.c).  The model runs main() on a file       *)
(* system: the option record as getopt_long() leaves it, the loop over the *)
(* root paths, and remove_dsstore() with its recursion kept as an explicit *)
(* stack of frames, one step per readdir() entry.                          *)
(*                                                                         *)
(* File names are sequences of characters, so that strcmp() and strncmp()  *)
(* are computed; a path is the sequence of its components (what the        *)
(* "%s/%s" of snprintf() joins).  Standard input is a sequence of bytes.   *)
(***************************************************************************)
EXTENDS Integers, Sequences, FiniteSets, TLC

VARIABLES
    world,      \* which file system the run starts on (index into Worlds)
    fs,         \* the paths that exist
    args,       \* argv[optind..argc-1]: the root paths
    home,       \* getenv("HOME"): a path, or NoHome
    input,      \* the bytes standard input holds when the process starts
    char_signed,\* whether plain char is signed in this build
    opts,       \* Options, as the getopt loop of main() leaves it
    argi,       \* main's loop index i, counted from 1
    stack,      \* the active calls of remove_dsstore, innermost first
    stdin,      \* the unread bytes of standard input
    log,        \* the lines printed, in order, on stdout and stderr
    hist,       \* the calls and system calls made, in order
    pc,         \* "main", "scan" or "done"
    exit_code,  \* the value main returned, once pc = "done"
    prev        \* log and hist of the dry-run pass that preceded this one

vars == <<world, fs, args, home, input, char_signed, opts, argi, stack,
          stdin, log, hist, pc, exit_code, prev>>

----------------------------------------------------------------------------
(* Bounds *)

\* at most this many option flags on the command line
MaxFlags == 2
\* at most this many root paths on the command line
MaxRoots == 2
\* the arguments of --max-depth are 0..MaxDepthArg
MaxDepthArg == 1

----------------------------------------------------------------------------
(* Names *)

DS_STORE == <<".", "D", "S", "_", "S", "t", "o", "r", "e">>
APPLE_A  == <<".", "_", "a">>
APPLE_0  == <<".", "_">>
DOT      == <<".">>
DOTDOT   == <<".", ".">>
FOO      == <<"f", "o", "o">>
KEEP     == <<"k", "e", "e", "p">>
ROOT     == <<"r">>
SUB      == <<"s", "u", "b">>
SKIP     == <<"s", "k", "i", "p">>
MNT      == <<"m", "n", "t">>
GONE     == <<"g", "o", "n", "e">>
NoHome   == <<>>

\* bytes of standard input
CH_NL == 10
CH_y  == 121
CH_Y  == 89
EOF   == -1

\* the name of a path: its last component
Name(p) == p[Len(p)]
Parent(p) == SubSeq(p, 1, Len(p) - 1)
IsPrefix(a, b) == Len(a) <= Len(b) /\ SubSeq(b, 1, Len(a)) = a

----------------------------------------------------------------------------
(* File systems.  A node: its path, whether lstat() reports a directory,   *)
(* its device, what opendir() on it gives, and whether lstat() and         *)
(* unlink() on it succeed.  The order of the nodes is the order readdir()  *)
(* yields them in.                                                         *)

Dir(p, dev, open) ==
    [path |-> p, isdir |-> TRUE, dev |-> dev, open |-> open,
     lstat_ok |-> TRUE, unlink_ok |-> TRUE]
File(p) ==
    [path |-> p, isdir |-> FALSE, dev |-> 1, open |-> "ENOTDIR",
     lstat_ok |-> TRUE, unlink_ok |-> TRUE]
Locked(p) == [File(p) EXCEPT !.unlink_ok = FALSE]
NoStat(p) == [File(p) EXCEPT !.lstat_ok = FALSE]

\* the tree of the scenarios, with the AppleDouble and custom names
World1 == <<
    Dir(<<ROOT>>, 1, "ok"),
    File(<<ROOT, DS_STORE>>),
    Dir(<<ROOT, SUB>>, 1, "ok"),
    File(<<ROOT, SUB, DS_STORE>>),
    File(<<ROOT, SUB, KEEP>>),
    File(<<ROOT, APPLE_A>>),
    File(<<ROOT, FOO>>),
    File(<<ROOT, SUB, APPLE_0>>) >>

\* directories named like an excluded one at depths 0, 1 and 2
World2 == <<
    Dir(<<ROOT>>, 1, "ok"),
    Dir(<<ROOT, SKIP>>, 1, "ok"),
    File(<<ROOT, SKIP, DS_STORE>>),
    Dir(<<ROOT, SUB>>, 1, "ok"),
    Dir(<<ROOT, SUB, SKIP>>, 1, "ok"),
    File(<<ROOT, SUB, SKIP, DS_STORE>>),
    File(<<ROOT, SUB, DS_STORE>>),
    Dir(<<ROOT, SUB, SUB>>, 1, "ok"),
    File(<<ROOT, SUB, SUB, DS_STORE>>),
    Dir(<<SKIP>>, 1, "ok"),
    File(<<SKIP, FOO>>),
    File(<<SKIP, DS_STORE>>) >>

\* two roots on two devices, each with a mount point below it
World3 == <<
    Dir(<<ROOT>>, 1, "ok"),
    Dir(<<ROOT, MNT>>, 2, "ok"),
    File(<<ROOT, MNT, DS_STORE>>),
    Dir(<<ROOT, MNT, SUB>>, 1, "ok"),
    File(<<ROOT, MNT, SUB, DS_STORE>>),
    File(<<ROOT, DS_STORE>>),
    Dir(<<MNT>>, 2, "ok"),
    Dir(<<MNT, SUB>>, 2, "ok"),
    File(<<MNT, SUB, DS_STORE>>),
    Dir(<<MNT, ROOT>>, 1, "ok"),
    File(<<MNT, ROOT, DS_STORE>>) >>

\* directories that cannot be opened, entries that cannot be stat'ed or
\* unlinked, and a root that is no directory
World4 == <<
    Dir(<<ROOT>>, 1, "ok"),
    Dir(<<ROOT, SKIP>>, 1, "EACCES"),
    File(<<ROOT, SKIP, DS_STORE>>),
    Dir(<<ROOT, SKIP, SUB>>, 1, "ok"),
    File(<<ROOT, SKIP, SUB, DS_STORE>>),
    Locked(<<ROOT, DS_STORE>>),
    Dir(<<ROOT, MNT>>, 1, "EIO"),
    File(<<ROOT, MNT, DS_STORE>>),
    NoStat(<<ROOT, FOO>>),
    Dir(<<ROOT, SUB>>, 1, "EPERM"),
    File(<<ROOT, APPLE_A>>),
    File(<<FOO>>) >>

Worlds == <<World1, World2, World3, World4>>

Nodes == {Worlds[world][i] : i \in 1..Len(Worlds[world])}
Paths0 == {n.path : n \in Nodes}
Node(p) == CHOOSE n \in Nodes : n.path = p

\* readdir() on directory d: ".", "..", then the names of the entries of d
\* that exist, in the file system's order
Children(d, files) ==
    SelectSeq(Worlds[world], LAMBDA n : n.path \in files /\ Len(n.path) = Len(d) + 1
                                          /\ Parent(n.path) = d)
RECURSIVE NamesOf(_)
NamesOf(ns) == IF ns = <<>> THEN <<>> ELSE <<Name(Head(ns).path)>> \o NamesOf(Tail(ns))
Listing(d, files) == <<DOT, DOTDOT>> \o NamesOf(Children(d, files))

----------------------------------------------------------------------------
(* Options: main()'s initializer and its getopt_long() loop.  F is the set  *)
(* of option letters given; d, e and m are the arguments of -d, -e and -m.  *)

Flags == {"A", "n", "q", "v", "i", "d", "x", "e", "m"}

ParseOptions(F, d, e, m) ==
    [dry_run         |-> "n" \in F,
     quiet           |-> "q" \in F,
     verbose         |-> "v" \in F,
     interactive     |-> "i" \in F,
     max_depth       |-> IF "d" \in F THEN d ELSE -1,
     one_file_system |-> "x" \in F,
     root_dev        |-> 0,
     excludes        |-> IF "e" \in F THEN e ELSE <<>>,
     target_name     |-> IF "m" \in F THEN m ELSE DS_STORE,
     clean_all       |-> "A" \in F]

\* the arguments tried for --max-depth, --exclude (one or two uses) and --name
DepthArgs   == 0..MaxDepthArg
ExcludeArgs == {<<SKIP>>, <<MNT, SKIP>>}
NameArgs    == {FOO, SUB}

----------------------------------------------------------------------------
(* The predicates of the traversal *)

\* strcmp(a, b) == 0
StrEq(a, b) == a = b

\* strncmp(a, b, n) == 0: the first n characters agree, or both strings end
\* before one differs
CharAt(s, i) == IF i <= Len(s) THEN s[i] ELSE "NUL"
RECURSIVE StrNEqFrom(_, _, _, _)
StrNEqFrom(a, b, i, n) ==
    IF i > n THEN TRUE
    ELSE IF CharAt(a, i) # CharAt(b, i) THEN FALSE
    ELSE IF CharAt(a, i) = "NUL" THEN TRUE
    ELSE StrNEqFrom(a, b, i + 1, n)
StrNEq(a, b, n) == StrNEqFrom(a, b, 1, n)

\* is_excluded with the loop left after its first round
is_excluded_first_only(name, o) ==
    Len(o.excludes) >= 1 /\ StrEq(name, o.excludes[1])

RECURSIVE ExcludedFrom(_, _, _)
ExcludedFrom(name, o, i) ==
    IF i > Len(o.excludes) THEN FALSE
    ELSE IF StrEq(name, o.excludes[i]) THEN TRUE
    ELSE ExcludedFrom(name, o, i + 1)
is_excluded(name, o) == ExcludedFrom(name, o, 1)

is_target(name, o) ==
    IF o.clean_all
    THEN StrEq(name, DS_STORE) \/ StrNEq(name, APPLE_0, 2)
    ELSE StrEq(name, o.target_name)

\* the depth check without the -1 sentinel
DepthExceededNoSentinel(o, depth) == depth > o.max_depth
\* the depth check one level late
DepthExceededOffByOne(o, depth) == o.max_depth # -1 /\ depth > o.max_depth + 1

\* the depth check that opens remove_dsstore
DepthExceeded(o, depth) == o.max_depth # -1 /\ depth > o.max_depth

\* the file system boundary check on a directory entry
OtherFilesystem(o, n) == o.one_file_system /\ n.dev # o.root_dev

----------------------------------------------------------------------------
(* Output and trace *)

Line(fd, msg, p) == [fd |-> fd, msg |-> msg, path |-> p]
Ev(op, p, depth, ok) ==
    [op |-> op, path |-> p, depth |-> depth, ok |-> ok, inp |-> <<>>, rest |-> <<>>]

\* printf under "if (opts->verbose && !opts->quiet)"
Chatty(o, msg, p) == IF o.verbose /\ ~o.quiet THEN <<Line("out", msg, p)>> ELSE <<>>
\* printf under "if (!opts->quiet)"
Unquiet(o, fd, msg, p) == IF ~o.quiet THEN <<Line(fd, msg, p)>> ELSE <<>>

\* a failed opendir() reported the same way for every errno
OpenFailLinesAnyErrno(o, errno, p) ==
    IF ~o.quiet THEN <<Line("err", "ErrOpen", p)>> ELSE <<>>

\* what a failed opendir() prints
OpenFailLines(o, errno, p) ==
    IF ~o.quiet
    THEN IF errno = "EACCES" \/ errno = "EPERM"
         THEN IF o.verbose THEN <<Line("out", "SkipAccessDenied", p)>> ELSE <<>>
         ELSE <<Line("err", "ErrOpen", p)>>
    ELSE <<>>

----------------------------------------------------------------------------
(* The interactive prompt *)

\* getchar()
GetChar(in) == IF in = <<>> THEN EOF ELSE Head(in)
Unread(in) == IF in = <<>> THEN <<>> ELSE Tail(in)

\* the conversion of getchar()'s int to plain char
ToChar(c, signed) ==
    LET b == c % 256
    IN  IF signed /\ b >= 128 THEN b - 256 ELSE b

\* while ((c = getchar()) != '\n' && c != EOF) ;
RECURSIVE ClearLine(_)
ClearLine(in) ==
    IF GetChar(in) = CH_NL \/ GetChar(in) = EOF THEN Unread(in)
    ELSE ClearLine(Unread(in))

\* the answer to one prompt: whether to delete, and the input left unread
Ask(in, signed) ==
    LET response == ToChar(GetChar(in), signed)
        rest     == IF response # CH_NL /\ response # EOF
                    THEN ClearLine(Unread(in)) ELSE Unread(in)
    IN  [yes |-> ~(response # CH_y /\ response # CH_Y), rest |-> rest]

\* the deletion with the dry_run test missing
DisposeIgnoresDryRun(o, full, depth, files) ==
    IF Node(full).unlink_ok
    THEN [fs |-> files \ {full}, lines |-> Unquiet(o, "out", "Deleted", full),
          evs |-> <<Ev("unlink", full, depth, TRUE)>>]
    ELSE [fs |-> files, lines |-> <<Line("err", "ErrDelete", full)>>,
          evs |-> <<Ev("unlink", full, depth, FALSE)>>]

\* the deletion with the "Would delete" line printed in verbose mode only
DisposeDryRunVerbose(o, full, depth, files) ==
    IF o.dry_run
    THEN [fs |-> files, lines |-> Chatty(o, "WouldDelete", full), evs |-> <<>>]
    ELSE IF Node(full).unlink_ok
         THEN [fs |-> files \ {full}, lines |-> Unquiet(o, "out", "Deleted", full),
               evs |-> <<Ev("unlink", full, depth, TRUE)>>]
         ELSE [fs |-> files, lines |-> <<Line("err", "ErrDelete", full)>>,
               evs |-> <<Ev("unlink", full, depth, FALSE)>>]

\* the deletion with the error line under "if (!opts->quiet)" too
DisposeQuietErrors(o, full, depth, files) ==
    IF o.dry_run
    THEN [fs |-> files, lines |-> Unquiet(o, "out", "WouldDelete", full), evs |-> <<>>]
    ELSE IF Node(full).unlink_ok
         THEN [fs |-> files \ {full}, lines |-> Unquiet(o, "out", "Deleted", full),
               evs |-> <<Ev("unlink", full, depth, TRUE)>>]
         ELSE [fs |-> files, lines |-> Unquiet(o, "err", "ErrDelete", full),
               evs |-> <<Ev("unlink", full, depth, FALSE)>>]

\* "if (should_delete)": the new file system, the lines printed and the
\* unlink() made for the target full
Dispose(o, full, depth, files) ==
    IF o.dry_run
    THEN [fs |-> files, lines |-> Unquiet(o, "out", "WouldDelete", full), evs |-> <<>>]
    ELSE IF Node(full).unlink_ok
         THEN [fs |-> files \ {full}, lines |-> Unquiet(o, "out", "Deleted", full),
               evs |-> <<Ev("unlink", full, depth, TRUE)>>]
         ELSE [fs |-> files, lines |-> <<Line("err", "ErrDelete", full)>>,
               evs |-> <<Ev("unlink", full, depth, FALSE)>>]

----------------------------------------------------------------------------
(* Initial states: a file system, a command line, an environment *)

RootNames == {n.path : n \in {m \in Nodes : Len(m.path) = 1}} \cup {<<GONE>>}

\* the input streams tried in interactive mode
Inputs == {
    <<>>,
    <<121, 10, 110, 10>>,              \* y, n
    <<110, 10, 121, 10>>,              \* n, y
    <<89, 10, 89, 10, 89, 10>>,        \* Y, Y, Y
    <<110, 121, 10, 10, 121, 10>>,     \* ny, an empty line, y
    <<255, 121, 10, 121, 10>>,         \* byte 0xff then y, y
    <<121, 101, 115>>,                 \* yes, unterminated
    <<110, 10, 255>> }                 \* n, then byte 0xff, unterminated

\* a command line names each root once
Distinct(a) == \A i, j \in DOMAIN a : a[i] = a[j] => i = j

\* The state when the getopt loop has ended and main() is about to look at
\* the paths.  The exits taken inside the loop (--help, an unknown option, a
\* failed realloc) scan nothing and are left out, as is the truncation of a
\* joined path at 4096 bytes.  Standard input and the signedness of char are
\* only read by the interactive prompt, and only vary with it.
Init ==
    /\ world \in 1..Len(Worlds)
    /\ fs = Paths0
    /\ \E k \in 0..MaxRoots : args \in {a \in [1..k -> RootNames] : Distinct(a)}
    /\ home \in (IF args = <<>> THEN RootNames \cup {NoHome} ELSE {NoHome})
    /\ \E F \in SUBSET Flags, d \in DepthArgs, e \in ExcludeArgs, m \in NameArgs :
          /\ Cardinality(F) <= MaxFlags
          /\ opts = ParseOptions(F, d, e, m)
    /\ input \in (IF opts.interactive THEN Inputs ELSE {<<>>})
    /\ char_signed \in (IF opts.interactive THEN BOOLEAN ELSE {TRUE})
    /\ argi = 0
    /\ stack = <<>>
    /\ stdin = input
    /\ log = <<>>
    /\ hist = <<>>
    /\ pc = "main"
    /\ exit_code = -1
    /\ prev = [ran |-> FALSE, log |-> <<>>, hist |-> <<>>]

----------------------------------------------------------------------------
(* main *)

Env == <<world, args, home, input, char_signed, prev>>

Frame(p, depth) == [path |-> p, depth |-> depth, opened |-> FALSE, entries |-> <<>>]

\* stat() of a root path
StatOk(p) == p \in fs /\ Node(p).lstat_ok

Banner(o, p) ==
    Unquiet(o, "out", IF o.clean_all THEN "BannerCleanAll" ELSE "BannerScan", p)

\* the number of roots main() goes through: argv's, or $HOME alone
NRoots == IF args = <<>> THEN 1 ELSE Len(args)

\* no path given and $HOME unset or not stat-able: exit 1
MainHomeFail ==
    /\ pc = "main" /\ args = <<>> /\ argi = 0
    /\ home = NoHome \/ ~StatOk(home)
    /\ log' = log \o <<Line("err", IF home = NoHome THEN "ErrNoHome" ELSE "ErrStatHome", home)>>
    /\ pc' = "done"
    /\ exit_code' = 1
    /\ UNCHANGED <<Env, fs, opts, argi, stack, stdin, hist>>

\* no path given: scan $HOME
MainHome ==
    /\ pc = "main" /\ args = <<>> /\ argi = 0
    /\ home # NoHome /\ StatOk(home)
    /\ opts' = [opts EXCEPT !.root_dev = Node(home).dev]
    /\ log' = log \o Banner(opts, home)
    /\ stack' = <<Frame(home, 0)>>
    /\ hist' = Append(hist, Ev("call", home, 0, TRUE))
    /\ argi' = 1
    /\ pc' = "scan"
    /\ UNCHANGED <<Env, fs, stdin, exit_code>>

\* the loop over argv: a path stat() fails on is reported and skipped
MainRootFail ==
    /\ pc = "main" /\ args # <<>> /\ argi < Len(args)
    /\ ~StatOk(args[argi + 1])
    /\ log' = Append(log, Line("err", "ErrStatPath", args[argi + 1]))
    /\ argi' = argi + 1
    /\ UNCHANGED <<Env, fs, opts, stack, stdin, hist, pc, exit_code>>

\* the loop over argv with root_dev taken from the first root only
MainRootStaleDev ==
    /\ pc = "main" /\ args # <<>> /\ argi < Len(args)
    /\ StatOk(args[argi + 1])
    /\ opts' = IF opts.root_dev = 0
               THEN [opts EXCEPT !.root_dev = Node(args[argi + 1]).dev] ELSE opts
    /\ log' = log \o Banner(opts, args[argi + 1])
    /\ stack' = <<Frame(args[argi + 1], 0)>>
    /\ hist' = Append(hist, Ev("call", args[argi + 1], 0, TRUE))
    /\ argi' = argi + 1
    /\ pc' = "scan"
    /\ UNCHANGED <<Env, fs, stdin, exit_code>>

MainRoot ==
    /\ pc = "main" /\ args # <<>> /\ argi < Len(args)
    /\ StatOk(args[argi + 1])
    /\ opts' = [opts EXCEPT !.root_dev = Node(args[argi + 1]).dev]
    /\ log' = log \o Banner(opts, args[argi + 1])
    /\ stack' = <<Frame(args[argi + 1], 0)>>
    /\ hist' = Append(hist, Ev("call", args[argi + 1], 0, TRUE))
    /\ argi' = argi + 1
    /\ pc' = "scan"
    /\ UNCHANGED <<Env, fs, stdin, exit_code>>

\* free(opts.excludes); return 0
MainExit ==
    /\ pc = "main" /\ argi >= NRoots
    /\ pc' = "done"
    /\ exit_code' = 0
    /\ UNCHANGED <<Env, fs, opts, argi, stack, stdin, log, hist>>

\* The process is started again on the same command line without -n, on the
\* file system and with the input of the dry-run pass that just ended.
Rerun ==
    /\ pc = "done" /\ exit_code = 0 /\ opts.dry_run
    /\ prev' = [ran |-> TRUE, log |-> log, hist |-> hist]
    /\ opts' = [opts EXCEPT !.dry_run = FALSE, !.root_dev = 0]
    /\ argi' = 0
    /\ stdin' = input
    /\ log' = <<>>
    /\ hist' = <<>>
    /\ pc' = "main"
    /\ exit_code' = -1
    /\ UNCHANGED <<world, args, home, input, char_signed, fs, stack>>

----------------------------------------------------------------------------
(* remove_dsstore *)

Top == stack[1]
Return == Tail(stack)
PcAfter(st) == IF st = <<>> THEN "main" ELSE "scan"

\* the entry readdir() returns next, its joined path, and the frame after it
Entry == Head(Top.entries)
Full == Append(Top.path, Entry)
Advanced == <<[Top EXCEPT !.entries = Tail(Top.entries)]>> \o Tail(stack)
InLoop == pc = "scan" /\ Top.opened /\ Top.entries # <<>>
Listed == InLoop /\ Entry # DOT /\ Entry # DOTDOT /\ Node(Full).lstat_ok

\* depth limit reached: return
DepthLimit ==
    /\ pc = "scan" /\ ~Top.opened
    /\ DepthExceeded(opts, Top.depth)
    /\ stack' = Return
    /\ pc' = PcAfter(Return)
    /\ UNCHANGED <<Env, fs, opts, argi, stdin, log, hist, exit_code>>

\* opendir() fails: report and return
OpenFail ==
    /\ pc = "scan" /\ ~Top.opened
    /\ ~DepthExceeded(opts, Top.depth)
    /\ Node(Top.path).open # "ok"
    /\ log' = log \o OpenFailLines(opts, Node(Top.path).open, Top.path)
    /\ hist' = Append(hist, Ev("opendir", Top.path, Top.depth, FALSE))
    /\ stack' = Return
    /\ pc' = PcAfter(Return)
    /\ UNCHANGED <<Env, fs, opts, argi, stdin, exit_code>>

OpenOk ==
    /\ pc = "scan" /\ ~Top.opened
    /\ ~DepthExceeded(opts, Top.depth)
    /\ Node(Top.path).open = "ok"
    /\ log' = log \o Chatty(opts, "Scanning", Top.path)
    /\ hist' = Append(hist, Ev("opendir", Top.path, Top.depth, TRUE))
    /\ stack' = <<[Top EXCEPT !.opened = TRUE, !.entries = Listing(Top.path, fs)]>>
                    \o Tail(stack)
    /\ UNCHANGED <<Env, fs, opts, argi, stdin, pc, exit_code>>

\* "." and "..": continue
EntryDot ==
    /\ InLoop
    /\ StrEq(Entry, DOT) \/ StrEq(Entry, DOTDOT)
    /\ stack' = Advanced
    /\ UNCHANGED <<Env, fs, opts, argi, stdin, log, hist, pc, exit_code>>

\* lstat() fails: report unless quiet, continue
EntryStatFail ==
    /\ InLoop /\ Entry # DOT /\ Entry # DOTDOT
    /\ ~Node(Full).lstat_ok
    /\ log' = log \o Unquiet(opts, "err", "ErrStat", Full)
    /\ hist' = Append(hist, Ev("lstat", Full, Top.depth, FALSE))
    /\ stack' = Advanced
    /\ UNCHANGED <<Env, fs, opts, argi, stdin, pc, exit_code>>

EntryExcluded ==
    /\ Listed /\ Node(Full).isdir
    /\ is_excluded(Entry, opts)
    /\ log' = log \o Chatty(opts, "SkipExcluded", Full)
    /\ hist' = Append(hist, Ev("lstat", Full, Top.depth, TRUE))
    /\ stack' = Advanced
    /\ UNCHANGED <<Env, fs, opts, argi, stdin, pc, exit_code>>

EntryOtherFs ==
    /\ Listed /\ Node(Full).isdir
    /\ ~is_excluded(Entry, opts)
    /\ OtherFilesystem(opts, Node(Full))
    /\ log' = log \o Chatty(opts, "SkipFilesystem", Full)
    /\ hist' = Append(hist, Ev("lstat", Full, Top.depth, TRUE))
    /\ stack' = Advanced
    /\ UNCHANGED <<Env, fs, opts, argi, stdin, pc, exit_code>>

\* remove_dsstore(fullpath, opts, current_depth + 1)
EntryRecurse ==
    /\ Listed /\ Node(Full).isdir
    /\ ~is_excluded(Entry, opts)
    /\ ~OtherFilesystem(opts, Node(Full))
    /\ hist' = hist \o <<Ev("lstat", Full, Top.depth, TRUE),
                          Ev("call", Full, Top.depth + 1, TRUE)>>
    /\ stack' = <<Frame(Full, Top.depth + 1)>> \o Advanced
    /\ UNCHANGED <<Env, fs, opts, argi, stdin, log, pc, exit_code>>

\* a non-directory that is no target: nothing
EntryOther ==
    /\ Listed /\ ~Node(Full).isdir
    /\ ~is_target(Entry, opts)
    /\ hist' = Append(hist, Ev("lstat", Full, Top.depth, TRUE))
    /\ stack' = Advanced
    /\ UNCHANGED <<Env, fs, opts, argi, stdin, log, pc, exit_code>>

\* a target: prompt if interactive, then dry-run line or unlink()
EntryTarget ==
    /\ Listed /\ ~Node(Full).isdir
    /\ is_target(Entry, opts)
    /\ LET ans == IF opts.interactive THEN Ask(stdin, char_signed)
                   ELSE [yes |-> TRUE, rest |-> stdin]
            ask == IF opts.interactive
                   THEN [lines |-> <<Line("out", "Prompt", Full)>>,
                         evs |-> <<[Ev("prompt", Full, Top.depth, ans.yes)
                                      EXCEPT !.inp = stdin, !.rest = ans.rest]>>]
                   ELSE [lines |-> <<>>, evs |-> <<>>]
            act == IF ans.yes THEN Dispose(opts, Full, Top.depth, fs)
                   ELSE [fs |-> fs, lines |-> <<>>, evs |-> <<>>]
       IN /\ stdin' = ans.rest
          /\ fs' = act.fs
          /\ log' = log \o ask.lines \o act.lines
          /\ hist' = hist \o <<Ev("lstat", Full, Top.depth, TRUE),
                                Ev("target", Full, Top.depth, TRUE)>>
                          \o ask.evs \o act.evs
    /\ stack' = Advanced
    /\ UNCHANGED <<Env, opts, argi, pc, exit_code>>

\* readdir() returns NULL: closedir() and return
CloseDir ==
    /\ pc = "scan" /\ Top.opened /\ Top.entries = <<>>
    /\ stack' = Return
    /\ pc' = PcAfter(Return)
    /\ UNCHANGED <<Env, fs, opts, argi, stdin, log, hist, exit_code>>

----------------------------------------------------------------------------

Next ==
    \/ MainHomeFail
    \/ MainHome
    \/ MainRootFail
    \/ MainRoot
    \/ MainExit
    \/ Rerun
    \/ DepthLimit
    \/ OpenFail
    \/ OpenOk
    \/ EntryDot
    \/ EntryStatFail
    \/ EntryExcluded
    \/ EntryOtherFs
    \/ EntryRecurse
    \/ EntryOther
    \/ EntryTarget
    \/ CloseDir

Spec == Init /\ [][Next]_vars

----------------------------------------------------------------------------
(* Reading the trace *)

Idx(op) == {i \in DOMAIN hist : hist[i].op = op}
Rank(p) == CHOOSE i \in DOMAIN Worlds[world] : Worlds[world][i].path = p
Under(r, p) == IsPrefix(r, p) /\ Len(p) > Len(r)
ScannedRoots == {hist[i].path : i \in {j \in Idx("call") : hist[j].depth = 0}}
LinesOf(l, msg) == {l[i].path : i \in {j \in DOMAIN l : l[j].msg = msg}}
EntryOps == {"lstat", "target", "prompt", "unlink"}
HasPrefix2(name) == Len(name) >= 2 /\ name[1] = "." /\ name[2] = "_"

\* the entries that follow p in the listing of its directory
LaterSiblings(p) ==
    {q \in Paths0 : Len(q) = Len(p) /\ Parent(q) = Parent(p) /\ Rank(q) > Rank(p)}
\* after event i the listing pass went on to every later sibling, and main
\* went through every root
Continued(i) ==
    pc = "done" =>
        /\ argi = NRoots
        /\ \A q \in LaterSiblings(hist[i].path) :
              \E j \in Idx("lstat") : j > i /\ hist[j].path = q

----------------------------------------------------------------------------
(* C1 *)

\* C1: a run with dry_run set removes no file system entry, whatever the
\* other options: the paths that exist are those that existed at the start.
C1_DryRunRemovesNothing == opts.dry_run => fs = Paths0

C1_Witness ==
    /\ opts.dry_run /\ pc = "done"
    /\ Cardinality(Idx("target")) >= 2
    /\ LinesOf(log, "WouldDelete") # {}

----------------------------------------------------------------------------
(* C2 *)

\* the second pass has ended: the same command line without -n, after the
\* dry-run pass recorded in prev
BothPassesDone == prev.ran /\ pc = "done"
Unlinked == {hist[i].path : i \in Idx("unlink")}

\* C2 as stated: whatever the other options, the paths the dry-run pass
\* logged as "Would delete" are the paths the real pass deleted.
C2_Original == BothPassesDone => LinesOf(prev.log, "WouldDelete") = Paths0 \ fs

\* C2 as amended: when quiet is not set, the paths the dry-run pass logged
\* as "Would delete" are the paths the real pass called unlink() on, which
\* are the paths it deleted and those whose deletion failed.
C2_DryRunLogsTheUnlinks ==
    BothPassesDone /\ ~opts.quiet =>
        /\ LinesOf(prev.log, "WouldDelete") = Unlinked
        /\ Paths0 \ fs = {hist[i].path : i \in {j \in Idx("unlink") : hist[j].ok}}

C2_Witness ==
    /\ BothPassesDone /\ ~opts.quiet
    /\ Cardinality(Paths0 \ fs) >= 2
    /\ LinesOf(prev.log, "WouldDelete") = Paths0 \ fs

----------------------------------------------------------------------------
(* C3 *)

NoFlags == opts = [ParseOptions({}, 0, <<>>, DS_STORE) EXCEPT !.root_dev = opts.root_dev]
Kept == \A p \in Paths0 : Node(p).isdir \/ ~StrEq(Name(p), DS_STORE) => p \in fs
NamedTarget(r, p) == Under(r, p) /\ ~Node(p).isdir /\ StrEq(Name(p), opts.target_name)

\* every directory from root r down to the one holding p can be opened, and
\* every entry on the way, p included, can be stat'ed
Reached(r, p) ==
    /\ \A k \in Len(r)..(Len(p) - 1) : Node(SubSeq(p, 1, k)).open = "ok"
    /\ \A k \in (Len(r) + 1)..Len(p) : Node(SubSeq(p, 1, k)).lstat_ok

\* C3 as stated: with no flags, once main has returned, every non-directory
\* named target_name in an openable directory under a scanned root is gone,
\* every directory and every entry of another name is still there, and the
\* exit code is 0.
C3_Original ==
    NoFlags /\ pc = "done" =>
        /\ \A r \in ScannedRoots, p \in Paths0 :
              NamedTarget(r, p) /\ Node(Parent(p)).open = "ok" => p \notin fs
        /\ Kept
        /\ ScannedRoots # {} => exit_code = 0

\* C3 as amended: with no flags, once main has returned, every non-directory
\* named target_name that the traversal reaches from a scanned root (through
\* directories that can be stat'ed and opened), that can be stat'ed and whose
\* unlink() succeeds is gone, every directory and every entry of another name
\* is still there, and the exit code is 0.
C3_NoFlagsDeletesReachable ==
    NoFlags /\ pc = "done" =>
        /\ \A r \in ScannedRoots, p \in Paths0 :
              NamedTarget(r, p) /\ Reached(r, p) /\ Node(p).unlink_ok => p \notin fs
        /\ Kept
        /\ ScannedRoots # {} => exit_code = 0

C3_Witness ==
    /\ NoFlags /\ pc = "done" /\ exit_code = 0 /\ world = 1
    /\ <<ROOT>> \in ScannedRoots
    /\ Paths0 \ fs = {<<ROOT, DS_STORE>>, <<ROOT, SUB, DS_STORE>>}

----------------------------------------------------------------------------
(* C4 *)

\* the name was given to --exclude
InExcludeList(name) == \E k \in DOMAIN opts.excludes : opts.excludes[k] = name
\* a component of p below the root, among the first n, is an excluded name
ExcludedWithin(p, n) == \E k \in 2..n : InExcludeList(p[k])

\* C4 as stated: remove_dsstore is never invoked on a directory whose name is
\* in the exclude list, at any depth, and no entry inside one is listed,
\* matched, prompted for or deleted.
C4_Original ==
    \A i \in DOMAIN hist :
        /\ hist[i].op = "call" => ~InExcludeList(Name(hist[i].path))
        /\ hist[i].op \in EntryOps =>
              \A k \in 1..(Len(hist[i].path) - 1) : ~InExcludeList(hist[i].path[k])

\* C4 as amended: remove_dsstore is never invoked on a directory entry whose
\* name is in the exclude list, at any depth below a scan root, and no entry
\* inside such a directory is listed, matched, prompted for or deleted; a
\* scan root is scanned whatever its name.
C4_ExcludedNeverRecursed ==
    \A i \in DOMAIN hist :
        /\ hist[i].op = "call" => ~ExcludedWithin(hist[i].path, Len(hist[i].path))
        /\ hist[i].op \in EntryOps => ~ExcludedWithin(hist[i].path, Len(hist[i].path) - 1)

C4_Witness ==
    /\ pc = "done" /\ world = 2 /\ opts.excludes # <<>>
    /\ \E i \in Idx("lstat") : hist[i].path = <<ROOT, SUB, SKIP>>
    /\ <<ROOT, SUB, SUB, DS_STORE>> \notin fs
    /\ <<ROOT, SUB, SKIP, DS_STORE>> \in fs

----------------------------------------------------------------------------
(* C5 *)

\* the depth of the directory that holds entry p: the root is at depth 0
DirDepth(p) == Len(p) - 2
RootTargets(r) ==
    {p \in Paths0 : Parent(p) = r /\ ~Node(p).isdir /\ Node(p).lstat_ok
                      /\ is_target(Name(p), opts)}

\* C5: with max_depth = N >= 0 every entry stat'ed, matched, prompted for or
\* unlinked lies in a directory at depth <= N, and remove_dsstore lists no
\* directory deeper than N; the targets directly in an openable root are all
\* processed, also when N = 0.
C5_DepthLimit ==
    opts.max_depth >= 0 =>
        /\ \A i \in DOMAIN hist :
              /\ hist[i].op \in EntryOps => DirDepth(hist[i].path) <= opts.max_depth
              /\ hist[i].op = "opendir" => Len(hist[i].path) - 1 <= opts.max_depth
        /\ pc = "done" =>
              \A r \in ScannedRoots : Node(r).open = "ok" =>
                  \A p \in RootTargets(r) : \E i \in Idx("target") : hist[i].path = p

C5_Witness ==
    /\ opts.max_depth = 0 /\ pc = "done" /\ world = 1
    /\ <<ROOT, DS_STORE>> \notin fs
    /\ <<ROOT, SUB, DS_STORE>> \in fs
    /\ \E i \in Idx("call") : hist[i].path = <<ROOT, SUB>>

----------------------------------------------------------------------------
(* C6 *)

RootOf(p) == SubSeq(p, 1, 1)
\* every directory from the root down to the first n components of p is on
\* the root's device
SameDevice(p, n) == \A k \in 2..n : Node(SubSeq(p, 1, k)).dev = Node(RootOf(p)).dev

\* C6: while a root is being scanned root_dev is that root's device; with
\* one_file_system set, remove_dsstore is never invoked on a subdirectory
\* whose device differs from it, and no entry beneath such a subdirectory is
\* stat'ed, matched, prompted for or unlinked.
C6_OneFileSystem ==
    /\ pc = "scan" => opts.root_dev = Node(stack[Len(stack)].path).dev
    /\ opts.one_file_system =>
          \A i \in DOMAIN hist :
              /\ hist[i].op = "call" => SameDevice(hist[i].path, Len(hist[i].path))
              /\ hist[i].op \in EntryOps => SameDevice(hist[i].path, Len(hist[i].path) - 1)

C6_Witness ==
    /\ opts.one_file_system /\ pc = "done" /\ world = 3
    /\ ScannedRoots = {<<ROOT>>, <<MNT>>}
    /\ opts.root_dev = 2
    /\ Paths0 \ fs = {<<ROOT, DS_STORE>>, <<MNT, SUB, DS_STORE>>}

----------------------------------------------------------------------------
(* C7 *)

\* the predicate C7 states
StatedTarget(name) ==
    \/ name = opts.target_name
    \/ opts.clean_all /\ (name = DS_STORE \/ HasPrefix2(name))

\* C7: a non-directory entry is treated as a target exactly when its name
\* is target_name, or clean_all is set and its name is ".DS_Store" or begins
\* with "._".
C7_TargetPredicate ==
    \A i \in Idx("lstat") :
        hist[i].ok /\ ~Node(hist[i].path).isdir =>
            ((\E j \in Idx("target") : hist[j].path = hist[i].path)
                <=> StatedTarget(Name(hist[i].path)))

----------------------------------------------------------------------------
(* C8 *)

\* the input that follows the first line of in
RECURSIVE AfterLine(_)
AfterLine(in) ==
    IF in = <<>> THEN <<>>
    ELSE IF Head(in) = 10 THEN Tail(in) ELSE AfterLine(Tail(in))

\* C8: each prompt consumes exactly one line of input (or meets its end),
\* and goes on to delete exactly when the first character of that line is
\* 'y' or 'Y'.
C8_OneLinePerPrompt ==
    \A i \in Idx("prompt") :
        /\ hist[i].rest = AfterLine(hist[i].inp)
        /\ hist[i].ok <=> (hist[i].inp # <<>> /\ hist[i].inp[1] \in {121, 89})

----------------------------------------------------------------------------
(* C9 *)

FailedUnlinks == {i \in Idx("unlink") : ~hist[i].ok}

\* C9: whenever unlink() on a matched file fails, an error line for that file
\* is printed on stderr, quiet or not, and the traversal goes on: the listing
\* pass reaches every later entry of the same directory and main every root.
C9_UnlinkFailureLogged ==
    \A i \in FailedUnlinks :
        /\ \E k \in DOMAIN log : log[k] = Line("err", "ErrDelete", hist[i].path)
        /\ Continued(i)

C9_Witness ==
    /\ opts.quiet /\ pc = "done" /\ FailedUnlinks # {}
    /\ <<ROOT, APPLE_A>> \notin fs

----------------------------------------------------------------------------
(* C10 *)

FailedOpens == {i \in Idx("opendir") : ~hist[i].ok}
Diagnosed(p) == \E k \in DOMAIN log : log[k].path = p /\ log[k].msg \in {"SkipAccessDenied", "ErrOpen"}
\* the directory was not listed, and the traversal went on
Abandoned(i) ==
    /\ \A j \in DOMAIN hist : hist[j].op \in EntryOps => Parent(hist[j].path) # hist[i].path
    /\ Continued(i)

====
